---- MODULE Spec2Model ----
(***************************************************************************)
(* A model of the kernel host of yutannihilation/ark:                      *)
(*   - the wire codec of src/src/wire/message.rs (ParseSpec),              *)
(*   - Kernel::connect of src/src/kernel.rs and the execution coordinator  *)
(*     RKernel of src/ark/src/r_kernel.rs, driven by the shell worker and  *)
(*     the I/O publish worker (Spec).                                      *)
(***************************************************************************)
EXTENDS Integers, Sequences, FiniteSets, TLC

\* ------------------------------------------------------------------------
\* Bounds of the model
\* ------------------------------------------------------------------------

\* how many identity frames the front end puts in front of a message
MaxIds == 2
\* how many binary buffer frames follow the content frame
MaxBufs == 1
\* how many requests the front end sends on the shell socket
MaxRequests == 2
\* how many times the executor writes to the console during one evaluation
MaxWrites == 1
\* how many messages the I/O publish channel holds before a send blocks
IOPubCap == 2
\* how many messages RKernel sends, on the I/O publish channel and on the
\* reply senders together, before the last call, while its methods are
\* called in any order
MaxSends == 2
\* how many shutdown requests are made while they are
MaxShutdowns == 1
\* how much console output accumulates while they are
MaxOutput == 2
\* how many times R calls ps_browse_url
MaxCalls == 3

\* ------------------------------------------------------------------------
\* Wire codec: frames
\* ------------------------------------------------------------------------

\* Option::None
None == "None"

\* the two HMAC keys of the model: the session's and a foreign one
SessionKey == "K1"
OtherKey == "K2"

\* the output size of HMAC-SHA256 in bytes (Hmac<Sha256>)
MacLen == 32

\* A frame is a record [tag, v]:
\*   tag "text"   : v is the frame's bytes, a sequence of characters;
\*   tag "json"   : v = <<part, verb, variant>>, a JSON document (its first
\*                  byte is "{", so it is never hexadecimal, never the
\*                  delimiter); variant tells two documents of one part apart;
\*   tag "hexmac" : v = <<key, data>>, the lowercase hexadecimal text of
\*                  HMAC-SHA256(key, data).
Text(s) == [tag |-> "text", v |-> s]
Json(part, verb, variant) == [tag |-> "json", v |-> <<part, verb, variant>>]
HexMac(key, data) == [tag |-> "hexmac", v |-> <<key, data>>]

\* const MSG_DELIM: &[u8] = b"<IDS|MSG>"
MSG_DELIM == Text(<<"<", "I", "D", "S", "|", "M", "S", "G", ">">>)

HexDigits == {"0", "1", "a", "f", "A"}

HexVal(c) ==
    CASE c = "0" -> 0
      [] c = "1" -> 1
      [] c = "a" -> 10
      [] c = "A" -> 10
      [] c = "f" -> 15

\* hex::decode: an odd length or a character that is no hexadecimal digit is
\* an error; otherwise every two digits make one byte.
HexDecode(f) ==
    CASE f.tag = "hexmac" -> [ok |-> TRUE, mac |-> TRUE, bytes |-> f.v]
      [] f.tag = "json" -> [ok |-> FALSE, mac |-> FALSE, bytes |-> <<>>]
      [] f.tag = "text" ->
           IF Len(f.v) % 2 = 0 /\ \A i \in 1..Len(f.v) : f.v[i] \in HexDigits
           THEN [ok |-> TRUE, mac |-> FALSE,
                 bytes |-> [i \in 1..(Len(f.v) \div 2) |->
                              16 * HexVal(f.v[2 * i - 1]) + HexVal(f.v[2 * i])]]
           ELSE [ok |-> FALSE, mac |-> FALSE, bytes |-> <<>>]

\* the number of bytes a decoded signature holds
ByteLen(dec) == IF dec.mac THEN MacLen ELSE Len(dec.bytes)

\* Mac::verify on a validator that was updated with every frame of data: the
\* decoded bytes are accepted when they are the HMAC of data under key.  A
\* byte string that was not produced with the key is never that HMAC.
MacVerify(key, data, dec) ==
    dec.mac /\ dec.bytes[1] = key /\ dec.bytes[2] = data

\* ------------------------------------------------------------------------
\* Wire codec: JupyterMessage::from_buffers
\* ------------------------------------------------------------------------

\* Result<JupyterMessage<T>, MessageError>
Err(e) == [ok |-> FALSE, err |-> e, verb |-> ""]

RECURSIVE PositionFrom(_, _)
PositionFrom(fs, i) ==
    IF i > Len(fs) THEN 0
    ELSE IF fs[i] = MSG_DELIM THEN i
    ELSE PositionFrom(fs, i + 1)

\* iter.position(|buf| &buf[..] == MSG_DELIM): the first matching index
\* (1-based here), 0 for None
position(fs) == PositionFrom(fs, 1)

\* a validate_hmac that verifies whether or not there is a key
validate_hmac_AlwaysVerify(fs, key) ==
    IF fs = <<>> THEN "Panic"
    ELSE LET data == fs[Len(fs)]
             rest == SubSeq(fs, 1, Len(fs) - 1)
             dec == HexDecode(data)
         IN  IF ~dec.ok THEN "InvalidHmac"
             ELSE IF ByteLen(dec) # MacLen THEN "Panic"
             ELSE IF MacVerify(key, rest, dec) THEN "Ok"
             ELSE "BadSignature"

\* JupyterMessage::validate_hmac
validate_hmac(fs, key) ==
    IF key = None THEN "Ok"
    ELSE IF fs = <<>> THEN "Panic"
    ELSE LET data == fs[Len(fs)]
             rest == SubSeq(fs, 1, Len(fs) - 1)
             dec == HexDecode(data)
         IN  IF ~dec.ok THEN "InvalidHmac"
             ELSE IF ByteLen(dec) # MacLen THEN "Panic"
             ELSE IF MacVerify(key, rest, dec) THEN "Ok"
             ELSE "BadSignature"

\* JupyterMessage::from_msg_bufs
from_msg_bufs(fs, key) ==
    LET v == validate_hmac(fs, key)
    IN  IF v # "Ok" THEN Err(v) ELSE Err("MissingDelimiter")

\* the slice bufs[pos + 1..] that from_buffers hands to from_msg_bufs
BodyOf(fs) == SubSeq(fs, position(fs) + 1, Len(fs))

\* from_buffers going on to from_msg_bufs when it found no delimiter
from_buffers_NoDelimiterCheck(fs, key) ==
    IF position(fs) # 0
    THEN from_msg_bufs(BodyOf(fs), key)
    ELSE from_msg_bufs(fs, key)

\* JupyterMessage::from_buffers
from_buffers(fs, key) ==
    IF position(fs) # 0
    THEN from_msg_bufs(BodyOf(fs), key)
    ELSE Err("MissingDelimiter")

\* ------------------------------------------------------------------------
\* The front end's side of the wire (spec.md section 3, Framed message)
\* ------------------------------------------------------------------------

Verbs == {"kernel_info_request", "execute_request"}
Parts == <<"header", "parent_header", "metadata", "content">>

\* the four signed frames of a message with the given verb; flip names the
\* one frame (1..4) that was changed after signing, 0 for none
SignedFrames(verb, flip) ==
    [i \in 1..4 |-> Json(Parts[i], verb, IF i = flip THEN "changed" ELSE "sent")]

SigKinds == {"session", "other", "empty", "zeros", "nothex"}

\* the signature frame: computed over the frames as they were sent
SignatureFrame(kind, verb) ==
    CASE kind = "session" -> HexMac(SessionKey, SignedFrames(verb, 0))
      [] kind = "other" -> HexMac(OtherKey, SignedFrames(verb, 0))
      [] kind = "empty" -> Text(<<>>)
      [] kind = "zeros" -> Text([i \in 1..(2 * MacLen) |-> "0"])
      [] kind = "nothex" -> Text(<<"x", "y">>)

IdFrames == {Text(<<"x">>), Text(<<"0", "a">>), MSG_DELIM}
\* a buffer frame that the front end fills with the hexadecimal HMAC, under
\* the session's key, of every frame between the delimiter and itself
MacOfFrames == [tag |-> "macofframes", v |-> <<>>]

BufFrames == {Text(<<>>), Text(<<"f", "f">>), Text(<<"x">>), MSG_DELIM, MacOfFrames}

RECURSIVE SeqsUpTo(_, _)
SeqsUpTo(S, n) ==
    IF n = 0 THEN {<<>>}
    ELSE LET shorter == SeqsUpTo(S, n - 1)
         IN  shorter \cup {Append(s, x) : s \in {t \in shorter : Len(t) = n - 1}, x \in S}

RECURSIVE BufferFrames(_, _)
\* the frames that follow body when the buffer frames bs are added to it
BufferFrames(body, bs) ==
    IF bs = <<>> THEN <<>>
    ELSE LET f == IF Head(bs) = MacOfFrames THEN HexMac(SessionKey, body)
                  ELSE Head(bs)
         IN  <<f>> \o BufferFrames(Append(body, f), Tail(bs))

Frames(m) ==
    LET body == <<SignatureFrame(m.sig, m.verb)>> \o SignedFrames(m.verb, m.flip)
    IN  m.ids
        \o (IF m.delim THEN <<MSG_DELIM>> ELSE <<>>)
        \o body
        \o BufferFrames(body, m.buffers)

Messages ==
    [ids : SeqsUpTo(IdFrames, MaxIds),
     delim : BOOLEAN,
     sig : SigKinds,
     verb : Verbs,
     flip : 0..4,
     buffers : SeqsUpTo(BufFrames, MaxBufs)]

\* Parse (inbound) and HMAC verification as spec.md section 4.1 has them: the
\* frame after the first delimiter is the signature, the four frames after
\* it are signed; without a key any signature frame is accepted.
ParseInbound(fs, key) ==
    LET pos == position(fs)
    IN  IF pos = 0 THEN Err("MissingDelimiter")
        ELSE IF Len(fs) < pos + 5 THEN Err("Malformed")
        ELSE LET signature == fs[pos + 1]
                 signed == SubSeq(fs, pos + 2, pos + 5)
                 dec == HexDecode(signature)
             IN  IF key # None /\ ~dec.ok THEN Err("InvalidHmac")
                 ELSE IF key # None /\ ~MacVerify(key, signed, dec)
                      THEN Err("BadSignature")
                 ELSE [ok |-> TRUE, err |-> "", verb |-> signed[1].v[2]]

\* ------------------------------------------------------------------------
\* State
\* ------------------------------------------------------------------------

VARIABLES
    \* the wire codec
    sent,       \* the message the front end composed
    bufs,       \* its frames, as received from the socket
    hmac_key,   \* the session's signing key, None when it has none
    parse_pc,   \* "ready" before from_buffers has run, "done" after
    msg_bufs,   \* the frames that from_buffers kept for from_msg_bufs
    result,     \* what from_buffers returned
    \* Kernel::connect
    connect_pc, \* where the host is: "file" (parse_file), then in connect()
                \* "shell", "iopub", "heartbeat", "execution", then "ok" or
                \* "err" (connect() returned Err); "down" once it was shut
                \* down, "aborted" once the panic hook has aborted it
    threads,    \* the worker threads that were spawned
    handles,    \* handles[w]: the sockets worker w was given
    \* the front end
    requests,   \* every request sent on the shell socket; its index is its id
    shell_in,   \* ids of the requests the shell socket has not delivered yet
    shell_out,  \* the replies sent on the shell socket
    control_in, \* the requests sent to the control endpoint, none taken yet
    control_out, \* the replies sent on the control socket
    \* the shell worker
    shell_pc,   \* "recv", "busy", "dispatch", "await", "reply", "idle"
    shell_req,  \* the id of the request being handled, 0 for none
    shell_reply, \* the reply to send for it
    dispatched, \* ids of the requests handed to the shell handler, in order
    \* channels
    iopub_chan, \* the I/O publish channel
    iopub_pub,  \* what the I/O publish worker has published, in order
    exec_req,   \* the execution request channel
    reply_chan, \* reply_chan[id]: what was sent on the reply sender of id
    \* RKernel
    execution_count,
    output,
    response_sender, \* the id whose reply sender is stored, 0 for None
    banner,
    initializing,
    console,    \* the console channel: Some(code) of request id, or None
    initializer, \* the kernel infos sent on the initializer channel
    started,    \* ids passed to handle_execute_request, in order
    \* the language executor
    r_pc,       \* "startup", "prompt", "eval", "finishing"
    r_req,      \* the id of the request being evaluated, 0 for none
    r_writes,   \* console writes made since the last prompt
    \* the log
    log,        \* the set of records written to the log
    \* the help channels and ps_browse_url
    help_comm,  \* "none": main.help_tx is None; "open"; "closed": the help thread is gone
    help_tx,    \* the help request channel: the requests sent, not yet taken
    help_rx,    \* the help reply channel: the replies sent, not yet taken
    browse_pc,  \* where R is in ps_browse_url: "idle", or "wait" in recv_timeout
    browse_url, \* the URL of the call in progress
    calls       \* the calls of ps_browse_url that have returned, in order

parse_vars == <<sent, bufs, hmac_key, parse_pc, msg_bufs, result>>
connect_vars == <<connect_pc, threads, handles>>
front_vars == <<requests, shell_in, shell_out, control_in, control_out>>
shell_vars == <<shell_pc, shell_req, shell_reply, dispatched>>
chan_vars == <<iopub_chan, iopub_pub, exec_req, reply_chan>>
kernel_vars == <<execution_count, output, response_sender, banner,
                 initializing, console, initializer, started>>
r_vars == <<r_pc, r_req, r_writes>>
pipe_vars == <<connect_vars, front_vars, shell_vars, chan_vars, kernel_vars, r_vars, log>>

help_vars == <<help_comm, help_tx, help_rx, browse_pc, browse_url, calls>>

vars == <<parse_vars, pipe_vars, help_vars>>

\* ------------------------------------------------------------------------
\* The wire codec as a state machine: one inbound message is parsed
\* ------------------------------------------------------------------------

\* no help comm yet, and R has not called ps_browse_url
HelpOff ==
    /\ help_comm = "none"
    /\ help_tx = <<>>
    /\ help_rx = <<>>
    /\ browse_pc = "idle"
    /\ browse_url = <<>>
    /\ calls = <<>>

\* the codec is not exercised
ParseOff ==
    /\ sent = [ids |-> <<>>, delim |-> TRUE, sig |-> "session",
               verb |-> "kernel_info_request", flip |-> 0, buffers |-> <<>>]
    /\ bufs = <<>>
    /\ hmac_key = SessionKey
    /\ parse_pc = "off"
    /\ msg_bufs = <<>>
    /\ result = Err("")

FromBuffers ==
    /\ parse_pc = "ready"
    /\ parse_pc' = "done"
    /\ msg_bufs' = (IF position(bufs) # 0 THEN BodyOf(bufs) ELSE <<>>)
    /\ result' = from_buffers(bufs, hmac_key)
    /\ UNCHANGED <<sent, bufs, hmac_key>>
    /\ UNCHANGED <<pipe_vars, help_vars>>

\* ------------------------------------------------------------------------
\* Messages of the kernel
\* ------------------------------------------------------------------------

Workers == {"shell", "iopub", "heartbeat", "execution"}
Sockets == {"Shell", "IOPub", "Heartbeat"}

Codes == {"1+1", "1+"}
\* what the language executor answers for a piece of code
Incomplete(code) == code = "1+"

\* sig tells how the front end made the signature frame of the request
InfoRequest ==
    [verb |-> "kernel_info_request", code |-> "",
     store_history |-> FALSE, silent |-> FALSE, sig |-> "session"]

ExecuteRequests ==
    [verb : {"execute_request"}, code : Codes,
     store_history : BOOLEAN, silent : BOOLEAN, sig : {"session"}]

\* a request of the right shape whose signature frame is all zeros
ForgedRequest ==
    [verb |-> "execute_request", code |-> "1+1",
     store_history |-> TRUE, silent |-> FALSE, sig |-> "zeros"]

Requests == {InfoRequest} \cup ExecuteRequests \cup {ForgedRequest}

\* the request as the front end puts it on the wire
WireMessage(req) ==
    [ids |-> <<Text(<<"x">>)>>, delim |-> TRUE, sig |-> req.sig,
     verb |-> req.verb, flip |-> 0, buffers |-> <<>>]

\* an I/O publish message; parent is the id of the request it belongs to
IOPubMessage(kind, parent, count, code, data) ==
    [kind |-> kind, parent |-> parent, execution_count |-> count,
     code |-> code, data |-> data]

Status(state, parent) == IOPubMessage(state, parent, 0, "", <<>>)

\* IOPubMessage::ExecuteInput(ExecuteInput { code, execution_count })
ExecuteInput(parent, code, count) ==
    IOPubMessage("execute_input", parent, count, code, <<>>)

\* IOPubMessage::ExecuteResult(ExecuteResult { execution_count, data, .. })
ExecuteResult(parent, count, data) ==
    IOPubMessage("execute_result", parent, count, "", data)

\* ExecuteResponse::Reply(ExecuteReply { status: Ok, .. })
ExecuteReply(count) ==
    [kind |-> "Reply", status |-> "ok", execution_count |-> count,
     ename |-> "", evalue |-> <<>>, traceback |-> <<>>,
     user_expressions |-> <<>>]

\* ExecuteResponse::ReplyException(ExecuteReplyException { status: Error, .. })
ExecuteReplyException(count, ename, evalue) ==
    [kind |-> "ReplyException", status |-> "error", execution_count |-> count,
     ename |-> ename, evalue |-> evalue, traceback |-> <<>>]

\* a log record: its level, its text, and the program's strings that were
\* formatted into it (numbers are left out)
LogRecord(level, msg, values) == [level |-> level, msg |-> msg, values |-> values]

\* a blocking send on the I/O publish channel can proceed
IOPubRoom == Len(iopub_chan) < IOPubCap

\* the receiver of the I/O publish channel is gone: the iopub thread, which
\* was given it, has ended
IOPubClosed == connect_pc \in {"heartbeat", "execution", "ok"} /\ "iopub" \notin threads

\* the host process is alive: the panic hook aborts it, and a shutdown that a
\* worker propagates ends it
HostAlive == connect_pc \notin {"down", "aborted"}

\* what the panic hook logs first for a panic of thread w
PanicRecord(w) == LogRecord("error", "Panic!", <<w>>)

\* thread w has panicked and is in the panic hook
InHook(w) == PanicRecord(w) \in log

\* thread w runs its own code
Running(w) == HostAlive /\ w \in threads /\ ~InHook(w)

\* ------------------------------------------------------------------------
\* Kernel::connect
\* ------------------------------------------------------------------------

\* let exec_socket = iopub_socket.clone(): the socket whose handle the
\* execution thread is given
exec_socket == "IOPub"

PipeInit ==
    /\ connect_pc = "file"
    /\ threads = {}
    /\ handles = [w \in Workers |-> {}]
    /\ requests = <<>>
    /\ shell_in = <<>>
    /\ shell_out = <<>>
    /\ control_in = <<>>
    /\ control_out = <<>>
    /\ shell_pc = "recv"
    /\ shell_req = 0
    /\ shell_reply = [parent |-> 0, msg_type |-> "", status |-> "", execution_count |-> 0]
    /\ dispatched = <<>>
    /\ iopub_chan = <<>>
    /\ iopub_pub = <<>>
    /\ exec_req = <<>>
    /\ reply_chan = [i \in 1..MaxRequests |-> <<>>]
    /\ execution_count = 0
    /\ output = <<>>
    /\ response_sender = 0
    /\ banner = <<>>
    /\ initializing = TRUE
    /\ console = <<>>
    /\ initializer = <<>>
    /\ started = <<>>
    /\ r_pc = "startup"
    /\ r_req = 0
    /\ r_writes = 0
    /\ log = {}

\* thread::spawn of worker w, which takes the given sockets with it
Spawn(w, socks) ==
    /\ threads' = threads \cup {w}
    /\ handles' = [handles EXCEPT ![w] = socks]

\* the connection descriptor that parse_file read (spec.md section 6); the
\* ports, being numbers, are left out
ConnectionFile ==
    [transport |-> "tcp", ip |-> "127.0.0.1",
     signature_scheme |-> "hmac-sha256", key |-> hmac_key]

\* "{:?}" of the connection descriptor: the values of its fields
FormatDebug(file) == <<file.transport, file.ip, file.signature_scheme, file.key>>

\* parse_file: the descriptor was read; it is logged, and start_kernel goes on
\* to connect()
parse_file ==
    /\ connect_pc = "file"
    /\ log' = log \cup
          {LogRecord("info", "Loaded connection information from frontend",
                     <<"connection_file">>),
           LogRecord("debug", "Connection data", FormatDebug(ConnectionFile))}
    /\ connect_pc' = "shell"
    /\ UNCHANGED <<threads, handles>>
    /\ UNCHANGED <<front_vars, shell_vars, chan_vars, kernel_vars, r_vars, parse_vars, help_vars>>

\* Socket::new(..)? fails: connect() returns Err
ConnectFailed ==
    /\ connect_pc' = "err"
    /\ UNCHANGED <<threads, handles, log>>

\* start_kernel, when connect() has returned Err: panic!("Couldn't connect
\* to frontend"), on the main thread
start_kernel ==
    /\ connect_pc = "err"
    /\ ~InHook("main")
    /\ log' = log \cup {PanicRecord("main")}
    /\ UNCHANGED <<connect_vars, front_vars, shell_vars, chan_vars, kernel_vars, r_vars, parse_vars, help_vars>>

\* Socket::new for the shell socket, and the shell thread
connect_shell ==
    /\ connect_pc = "shell"
    /\ \/ Spawn("shell", {"Shell"}) /\ connect_pc' = "iopub" /\ UNCHANGED log
       \/ ConnectFailed
    /\ UNCHANGED <<front_vars, shell_vars, chan_vars, kernel_vars, r_vars, parse_vars, help_vars>>

\* Socket::new for the IOPub socket, and the iopub thread
connect_iopub ==
    /\ connect_pc = "iopub"
    /\ \/ Spawn("iopub", {"IOPub"}) /\ connect_pc' = "heartbeat" /\ UNCHANGED log
       \/ ConnectFailed
    /\ UNCHANGED <<front_vars, shell_vars, chan_vars, kernel_vars, r_vars, parse_vars, help_vars>>

\* Socket::new for the heartbeat socket, and the heartbeat thread
connect_heartbeat ==
    /\ connect_pc = "heartbeat"
    /\ \/ Spawn("heartbeat", {"Heartbeat"}) /\ connect_pc' = "execution" /\ UNCHANGED log
       \/ ConnectFailed
    /\ UNCHANGED <<front_vars, shell_vars, chan_vars, kernel_vars, r_vars, parse_vars, help_vars>>

\* the execution thread; connect() returns Ok(())
connect_execution ==
    /\ connect_pc = "execution"
    /\ Spawn("execution", {exec_socket})
    /\ connect_pc' = "ok"
    /\ UNCHANGED <<front_vars, shell_vars, chan_vars, kernel_vars, r_vars, parse_vars, help_vars, log>>

\* ------------------------------------------------------------------------
\* The front end
\* ------------------------------------------------------------------------

\* a request arrives on the shell socket, once that socket is bound
FrontendSend ==
    /\ HostAlive
    /\ "shell" \in threads
    /\ Len(requests) < MaxRequests
    /\ \E req \in Requests :
          /\ requests' = Append(requests, req)
          /\ shell_in' = Append(shell_in, Len(requests) + 1)
    /\ UNCHANGED <<shell_out, control_in, control_out>>
    /\ UNCHANGED <<connect_vars, shell_vars, chan_vars, kernel_vars, r_vars, parse_vars, help_vars, log>>

\* a shutdown request arrives on the control endpoint of the connection
\* descriptor
FrontendShutdown ==
    /\ connect_pc = "ok"
    /\ control_in = <<>>
    /\ control_in' = <<"shutdown_request">>
    /\ UNCHANGED <<requests, shell_in, shell_out, control_out>>
    /\ UNCHANGED <<connect_vars, shell_vars, chan_vars, kernel_vars, r_vars, parse_vars, help_vars, log>>

\* ------------------------------------------------------------------------
\* The shell worker (spec.md section 4.4)
\* ------------------------------------------------------------------------

ShellReply(parent, msg_type, status, count) ==
    [parent |-> parent, msg_type |-> msg_type, status |-> status,
     execution_count |-> count]

\* what the codec returns for the request with the given id
Received(id) == ParseInbound(Frames(WireMessage(requests[id])), hmac_key)

\* shell_recv going on with a request whatever the codec returned for it
shell_recv_NoVerify ==
    /\ Running("shell")
    /\ shell_pc = "recv"
    /\ shell_in # <<>>
    /\ shell_in' = Tail(shell_in)
    /\ shell_req' = Head(shell_in)
    /\ shell_pc' = "busy"
    /\ UNCHANGED log
    /\ UNCHANGED <<requests, shell_out, control_in, control_out, shell_reply, dispatched>>
    /\ UNCHANGED <<connect_vars, chan_vars, kernel_vars, r_vars, parse_vars, help_vars>>

\* step 1: receive a request from the shell socket, parse and verify it; a
\* request that fails is logged and dropped (spec.md section 7), and the
\* worker receives the next one
shell_recv ==
    /\ Running("shell")
    /\ shell_pc = "recv"
    /\ shell_in # <<>>
    /\ shell_in' = Tail(shell_in)
    /\ IF Received(Head(shell_in)).ok
       THEN /\ shell_req' = Head(shell_in)
            /\ shell_pc' = "busy"
            /\ UNCHANGED log
       ELSE /\ log' = log \cup {LogRecord("warn", Received(Head(shell_in)).err,
                                            <<"signature">>)}
            /\ UNCHANGED <<shell_req, shell_pc>>
    /\ UNCHANGED <<requests, shell_out, control_in, control_out, shell_reply, dispatched>>
    /\ UNCHANGED <<connect_vars, chan_vars, kernel_vars, r_vars, parse_vars, help_vars>>

\* shell_busy with the status tagged with an empty parent header
shell_busy_NoParent ==
    /\ Running("shell")
    /\ shell_pc = "busy"
    /\ ~IOPubClosed
    /\ IOPubRoom
    /\ iopub_chan' = Append(iopub_chan, Status("busy", 0))
    /\ shell_pc' = "dispatch"
    /\ UNCHANGED <<iopub_pub, exec_req, reply_chan>>
    /\ UNCHANGED <<shell_req, shell_reply, dispatched>>
    /\ UNCHANGED <<connect_vars, front_vars, kernel_vars, r_vars, parse_vars, help_vars, log>>

\* step 2: publish status=busy tagged with the request's header
shell_busy ==
    /\ Running("shell")
    /\ shell_pc = "busy"
    /\ ~IOPubClosed
    /\ IOPubRoom
    /\ iopub_chan' = Append(iopub_chan, Status("busy", shell_req))
    /\ shell_pc' = "dispatch"
    /\ UNCHANGED <<iopub_pub, exec_req, reply_chan>>
    /\ UNCHANGED <<shell_req, shell_reply, dispatched>>
    /\ UNCHANGED <<connect_vars, front_vars, kernel_vars, r_vars, parse_vars, help_vars, log>>

\* step 3: dispatch by verb.  The shell handler answers kernel_info_request
\* itself, with a reply or an exception; an execute_request is forwarded to
\* the execution coordinator.
shell_dispatch ==
    /\ Running("shell")
    /\ shell_pc = "dispatch"
    /\ dispatched' = Append(dispatched, shell_req)
    /\ IF requests[shell_req].verb = "execute_request"
       THEN /\ exec_req' = Append(exec_req, shell_req)
            /\ shell_pc' = "await"
            /\ UNCHANGED shell_reply
       ELSE /\ \E status \in {"ok", "error"} :
                  shell_reply' = ShellReply(shell_req, "kernel_info_reply", status, 0)
            /\ shell_pc' = "reply"
            /\ UNCHANGED exec_req
    /\ UNCHANGED <<iopub_chan, iopub_pub, reply_chan, shell_req>>
    /\ UNCHANGED <<connect_vars, front_vars, kernel_vars, r_vars, parse_vars, help_vars, log>>

\* step 3, execute_request: await the reply on the request's reply channel
shell_await ==
    /\ Running("shell")
    /\ shell_pc = "await"
    /\ reply_chan[shell_req] # <<>>
    /\ LET rep == Head(reply_chan[shell_req])
       IN  shell_reply' = ShellReply(shell_req, "execute_reply", rep.status,
                                     rep.execution_count)
    /\ shell_pc' = "reply"
    /\ UNCHANGED <<shell_req, dispatched>>
    /\ UNCHANGED <<connect_vars, front_vars, chan_vars, kernel_vars, r_vars, parse_vars, help_vars, log>>

\* step 4: emit the reply on the shell socket
shell_reply_send ==
    /\ Running("shell")
    /\ shell_pc = "reply"
    /\ shell_out' = Append(shell_out, shell_reply)
    /\ shell_pc' = "idle"
    /\ UNCHANGED <<requests, shell_in, control_in, control_out>>
    /\ UNCHANGED <<shell_req, shell_reply, dispatched>>
    /\ UNCHANGED <<connect_vars, chan_vars, kernel_vars, r_vars, parse_vars, help_vars, log>>

\* shell_idle returning early, without the status, after an error reply
shell_idle_NotOnError ==
    /\ Running("shell")
    /\ shell_pc = "idle"
    /\ ~IOPubClosed
    /\ shell_reply.status = "error" \/ IOPubRoom
    /\ iopub_chan' = IF shell_reply.status = "error"
                     THEN iopub_chan
                     ELSE Append(iopub_chan, Status("idle", shell_req))
    /\ shell_pc' = "recv"
    /\ shell_req' = 0
    /\ UNCHANGED <<iopub_pub, exec_req, reply_chan>>
    /\ UNCHANGED <<shell_reply, dispatched>>
    /\ UNCHANGED <<connect_vars, front_vars, kernel_vars, r_vars, parse_vars, help_vars, log>>

\* step 5: publish status=idle tagged with the request's header
shell_idle ==
    /\ Running("shell")
    /\ shell_pc = "idle"
    /\ ~IOPubClosed
    /\ IOPubRoom
    /\ iopub_chan' = Append(iopub_chan, Status("idle", shell_req))
    /\ shell_pc' = "recv"
    /\ shell_req' = 0
    /\ UNCHANGED <<iopub_pub, exec_req, reply_chan>>
    /\ UNCHANGED <<shell_reply, dispatched>>
    /\ UNCHANGED <<connect_vars, front_vars, kernel_vars, r_vars, parse_vars, help_vars, log>>

\* steps 2 and 5 when the I/O publish channel is closed: a sibling worker has
\* died, which is fatal; the shutdown is propagated to the host (spec.md
\* section 7, ChannelClosed)
shell_channel_closed ==
    /\ Running("shell")
    /\ shell_pc \in {"busy", "idle"}
    /\ IOPubClosed
    /\ connect_pc' = "down"
    /\ log' = log \cup {LogRecord("error", "ChannelClosed", <<>>)}
    /\ UNCHANGED <<threads, handles>>
    /\ UNCHANGED <<front_vars, shell_vars, chan_vars, kernel_vars, r_vars, parse_vars, help_vars>>

\* ------------------------------------------------------------------------
\* The I/O publish worker (spec.md section 4.3)
\* ------------------------------------------------------------------------

\* IOPub::listen returns: the iopub thread ends, and the receiver of the I/O
\* publish channel with it
iopub_exit ==
    /\ connect_pc = "ok"
    /\ Running("iopub")
    /\ threads' = threads \ {"iopub"}
    /\ UNCHANGED <<connect_pc, handles>>
    /\ UNCHANGED <<front_vars, shell_vars, chan_vars, kernel_vars, r_vars, parse_vars, help_vars, log>>

\* a worker that takes the newest message of the channel first
iopub_listen_Newest ==
    /\ Running("iopub")
    /\ iopub_chan # <<>>
    /\ iopub_pub' = Append(iopub_pub, iopub_chan[Len(iopub_chan)])
    /\ iopub_chan' = SubSeq(iopub_chan, 1, Len(iopub_chan) - 1)
    /\ UNCHANGED <<exec_req, reply_chan>>
    /\ UNCHANGED <<connect_vars, front_vars, shell_vars, kernel_vars, r_vars, parse_vars, help_vars, log>>

iopub_listen ==
    /\ Running("iopub")
    /\ iopub_chan # <<>>
    /\ iopub_pub' = Append(iopub_pub, Head(iopub_chan))
    /\ iopub_chan' = Tail(iopub_chan)
    /\ UNCHANGED <<exec_req, reply_chan>>
    /\ UNCHANGED <<connect_vars, front_vars, shell_vars, kernel_vars, r_vars, parse_vars, help_vars, log>>

\* ------------------------------------------------------------------------
\* RKernel (src/ark/src/r_kernel.rs)
\* ------------------------------------------------------------------------

\* what one console write can carry
ConsoleTexts == {<<"a">>}

\* a send on the stored reply sender, if there is one
SendResponse(resp) ==
    reply_chan' = IF response_sender # 0
                  THEN [reply_chan EXCEPT ![response_sender] = Append(@, resp)]
                  ELSE reply_chan

\* RRequest::Shutdown, as it stands in the execution request channel, and the
\* None that tells the console to quit
RRequestShutdown == 0
ConsoleNone == 0

\* the warnings of a failed send on the I/O publish channel
ExecuteInputWarning ==
    LogRecord("warn", "Could not broadcast execution input to all front ends", <<>>)
ExecuteResultWarning ==
    LogRecord("warn", "Could not publish result of statement on iopub", <<>>)

\* handle_execute_request broadcasting the input before it increments the
\* counter
handle_execute_request_InputFirst(id) ==
    LET req == requests[id]
        count == IF req.store_history
                 THEN execution_count + 1
                 ELSE execution_count
    IN  /\ req.silent \/ IOPubClosed \/ IOPubRoom
        /\ output' = <<>>
        /\ response_sender' = id
        /\ execution_count' = count
        /\ iopub_chan' = IF ~req.silent /\ ~IOPubClosed
                         THEN Append(iopub_chan,
                                     ExecuteInput(id, req.code, execution_count))
                         ELSE iopub_chan
        /\ log' = IF ~req.silent /\ IOPubClosed
                  THEN log \cup {ExecuteInputWarning}
                  ELSE log
        /\ console' = Append(console, id)
        /\ started' = Append(started, id)
        /\ UNCHANGED reply_chan

\* handle_execute_request with the counter incremented for every request
handle_execute_request_CountAlways(id) ==
    LET req == requests[id]
        count == execution_count + 1
    IN  /\ req.silent \/ IOPubClosed \/ IOPubRoom
        /\ output' = <<>>
        /\ response_sender' = id
        /\ execution_count' = count
        /\ iopub_chan' = IF ~req.silent /\ ~IOPubClosed
                         THEN Append(iopub_chan, ExecuteInput(id, req.code, count))
                         ELSE iopub_chan
        /\ log' = IF ~req.silent /\ IOPubClosed
                  THEN log \cup {ExecuteInputWarning}
                  ELSE log
        /\ console' = Append(console, id)
        /\ started' = Append(started, id)
        /\ UNCHANGED reply_chan

\* handle_execute_request answering as soon as the code is handed to the
\* console, without waiting for the executor
handle_execute_request_EarlyReply(id) ==
    LET req == requests[id]
        count == IF req.store_history
                 THEN execution_count + 1
                 ELSE execution_count
    IN  /\ req.silent \/ IOPubClosed \/ IOPubRoom
        /\ output' = <<>>
        /\ response_sender' = id
        /\ execution_count' = count
        /\ iopub_chan' = IF ~req.silent /\ ~IOPubClosed
                         THEN Append(iopub_chan, ExecuteInput(id, req.code, count))
                         ELSE iopub_chan
        /\ log' = IF ~req.silent /\ IOPubClosed
                  THEN log \cup {ExecuteInputWarning}
                  ELSE log
        /\ console' = Append(console, id)
        /\ started' = Append(started, id)
        /\ reply_chan' = [reply_chan EXCEPT ![id] = Append(@, ExecuteReply(count))]

\* handle_execute_request keeping the output accumulated so far
handle_execute_request_NoReset(id) ==
    LET req == requests[id]
        count == IF req.store_history
                 THEN execution_count + 1
                 ELSE execution_count
    IN  /\ req.silent \/ IOPubClosed \/ IOPubRoom
        /\ output' = output
        /\ response_sender' = id
        /\ execution_count' = count
        /\ iopub_chan' = IF ~req.silent /\ ~IOPubClosed
                         THEN Append(iopub_chan, ExecuteInput(id, req.code, count))
                         ELSE iopub_chan
        /\ log' = IF ~req.silent /\ IOPubClosed
                  THEN log \cup {ExecuteInputWarning}
                  ELSE log
        /\ console' = Append(console, id)
        /\ started' = Append(started, id)
        /\ UNCHANGED reply_chan

\* RKernel::handle_execute_request, for the request with the given id
handle_execute_request(id) ==
    LET req == requests[id]
        \* a u32; MaxRequests keeps it far from its width
        count == IF req.store_history
                 THEN execution_count + 1
                 ELSE execution_count
    IN  /\ req.silent \/ IOPubClosed \/ IOPubRoom
        /\ output' = <<>>
        /\ response_sender' = id
        /\ execution_count' = count
        /\ iopub_chan' = IF ~req.silent /\ ~IOPubClosed
                         THEN Append(iopub_chan, ExecuteInput(id, req.code, count))
                         ELSE iopub_chan
        /\ log' = IF ~req.silent /\ IOPubClosed
                  THEN log \cup {ExecuteInputWarning}
                  ELSE log
        /\ console' = Append(console, id)
        /\ started' = Append(started, id)
        /\ UNCHANGED reply_chan

\* fulfill_request ending the request in progress when it is told to shut
\* down
fulfill_request_ShutdownClears ==
    /\ Running("execution")
    /\ exec_req # <<>>
    /\ exec_req' = Tail(exec_req)
    /\ IF Head(exec_req) = RRequestShutdown
       THEN /\ console' = Append(console, ConsoleNone)
            /\ output' = <<>>
            /\ response_sender' = 0
            /\ UNCHANGED <<execution_count, started, iopub_chan, reply_chan, log>>
       ELSE handle_execute_request(Head(exec_req))
    /\ UNCHANGED <<iopub_pub, banner, initializing, initializer>>
    /\ UNCHANGED <<connect_vars, front_vars, shell_vars, r_vars, parse_vars, help_vars>>

\* RKernel::fulfill_request, on the next request of the execution request
\* channel
fulfill_request ==
    /\ Running("execution")
    /\ exec_req # <<>>
    /\ exec_req' = Tail(exec_req)
    /\ IF Head(exec_req) = RRequestShutdown
       THEN /\ console' = Append(console, ConsoleNone)
            /\ UNCHANGED <<execution_count, output, response_sender, started,
                           iopub_chan, reply_chan, log>>
       ELSE handle_execute_request(Head(exec_req))
    /\ UNCHANGED <<iopub_pub, banner, initializing, initializer>>
    /\ UNCHANGED <<connect_vars, front_vars, shell_vars, r_vars, parse_vars, help_vars>>

\* RKernel::write_console
write_console ==
    /\ Running("execution")
    /\ r_pc \in {"startup", "eval"}
    /\ r_writes < MaxWrites
    /\ r_writes' = r_writes + 1
    /\ \E content \in ConsoleTexts :
          /\ log' = log \cup {LogRecord("debug", "Write console from R", content)}
          /\ IF initializing
             THEN banner' = banner \o content /\ UNCHANGED output
             ELSE output' = output \o content /\ UNCHANGED banner
    /\ UNCHANGED <<execution_count, response_sender, initializing, console,
                   initializer, started, r_pc, r_req>>
    /\ UNCHANGED <<connect_vars, front_vars, shell_vars, chan_vars, parse_vars, help_vars>>

\* complete_intialization sending the kernel info on every call
complete_intialization_EveryCall ==
    /\ Running("execution")
    /\ r_pc = "startup"
    /\ initializer' = Append(initializer, [version |-> "R", banner |-> banner])
    /\ initializing' = FALSE
    /\ log' = log \cup {LogRecord("debug", "Sending kernel info", <<"R">>)}
    /\ r_pc' = "prompt"
    /\ r_writes' = 0
    /\ UNCHANGED <<execution_count, output, response_sender, banner, console, started, r_req>>
    /\ UNCHANGED <<connect_vars, front_vars, shell_vars, chan_vars, parse_vars, help_vars>>

\* RKernel::complete_intialization, when the executor first asks for input
complete_intialization ==
    /\ Running("execution")
    /\ r_pc = "startup"
    /\ IF initializing
       THEN /\ initializer' = Append(initializer, [version |-> "R", banner |-> banner])
            /\ initializing' = FALSE
            /\ log' = log \cup {LogRecord("debug", "Sending kernel info", <<"R">>)}
       ELSE /\ UNCHANGED <<initializer, initializing>>
            /\ log' = log \cup {LogRecord("warn", "Initialization already complete!", <<>>)}
    /\ r_pc' = "prompt"
    /\ r_writes' = 0
    /\ UNCHANGED <<execution_count, output, response_sender, banner, console, started, r_req>>
    /\ UNCHANGED <<connect_vars, front_vars, shell_vars, chan_vars, parse_vars, help_vars>>

\* the executor takes the next input from the console channel and evaluates
\* it (spec.md section 4.6, step 4); on None it quits
r_read_console ==
    /\ Running("execution")
    /\ r_pc = "prompt"
    /\ console # <<>>
    /\ r_req' = Head(console)
    /\ console' = Tail(console)
    /\ r_pc' = IF Head(console) = ConsoleNone THEN "quit" ELSE "eval"
    /\ r_writes' = 0
    /\ UNCHANGED <<execution_count, output, response_sender, banner,
                   initializing, initializer, started>>
    /\ UNCHANGED <<connect_vars, front_vars, shell_vars, chan_vars, parse_vars, help_vars, log>>

\* finish_request answering before it publishes the result
finish_request_sends_ReplyFirst == <<"reply", "execute_result">>

\* RKernel::finish_request: the order of its two sends
finish_request_sends == <<"execute_result", "reply">>

\* finish_request with a reply that carries the number of requests handled
\* so far instead of the counter
FinishSend_RequestsHandled(what) ==
    IF what = "execute_result"
    THEN /\ IOPubClosed \/ IOPubRoom
         /\ iopub_chan' = IF IOPubClosed
                          THEN iopub_chan
                          ELSE Append(iopub_chan,
                                      ExecuteResult(response_sender, execution_count, output))
         /\ UNCHANGED reply_chan
    ELSE /\ SendResponse(ExecuteReply(Len(started)))
         /\ UNCHANGED iopub_chan

\* finish_request publishing the result and sending no reply
FinishSend_NoReply(what) ==
    IF what = "execute_result"
    THEN /\ IOPubClosed \/ IOPubRoom
         /\ iopub_chan' = IF IOPubClosed
                          THEN iopub_chan
                          ELSE Append(iopub_chan,
                                      ExecuteResult(response_sender, execution_count, output))
         /\ UNCHANGED reply_chan
    ELSE UNCHANGED <<reply_chan, iopub_chan>>

\* one of the sends of finish_request: the execute_result on the I/O publish
\* channel (a blocking send), the reply on the stored reply sender
FinishSend(what) ==
    IF what = "execute_result"
    THEN /\ IOPubClosed \/ IOPubRoom
         /\ iopub_chan' = IF IOPubClosed
                          THEN iopub_chan
                          ELSE Append(iopub_chan,
                                      ExecuteResult(response_sender, execution_count, output))
         /\ UNCHANGED reply_chan
    ELSE /\ SendResponse(ExecuteReply(execution_count))
         /\ UNCHANGED iopub_chan

\* what a send of finish_request logs: a warning when the I/O publish channel
\* is closed
FinishWarn(what) ==
    IF what = "execute_result" /\ IOPubClosed THEN {ExecuteResultWarning} ELSE {}

\* RKernel::finish_request, up to and including its first send: the
\* evaluation has ended and the executor is back at its prompt
finish_request ==
    /\ Running("execution")
    /\ r_pc = "eval"
    /\ ~Incomplete(requests[r_req].code)
    /\ FinishSend(finish_request_sends[1])
    /\ log' = log \cup {LogRecord("trace", "Formatting value", <<>>),
                        LogRecord("trace", "Sending kernel output", output)}
                  \cup FinishWarn(finish_request_sends[1])
    /\ r_pc' = "finishing"
    /\ UNCHANGED <<iopub_pub, exec_req, kernel_vars, r_req, r_writes>>
    /\ UNCHANGED <<connect_vars, front_vars, shell_vars, parse_vars, help_vars>>

\* RKernel::finish_request, its second send
finish_request_reply ==
    /\ Running("execution")
    /\ r_pc = "finishing"
    /\ FinishSend(finish_request_sends[2])
    /\ log' = log \cup FinishWarn(finish_request_sends[2])
    /\ r_pc' = "prompt"
    /\ r_req' = 0
    /\ UNCHANGED <<iopub_pub, exec_req, kernel_vars, r_writes>>
    /\ UNCHANGED <<connect_vars, front_vars, shell_vars, parse_vars, help_vars>>

\* report_incomplete_request publishing a result, as finish_request does,
\* before it sends the exception
report_incomplete_request_WithResult ==
    /\ Running("execution")
    /\ r_pc = "eval"
    /\ Incomplete(requests[r_req].code)
    /\ IOPubRoom
    /\ iopub_chan' = Append(iopub_chan,
                            ExecuteResult(response_sender, execution_count, output))
    /\ SendResponse(ExecuteReplyException(execution_count, "IncompleteInput",
            <<"Code fragment is not complete: ", requests[r_req].code>>))
    /\ r_pc' = "prompt"
    /\ r_req' = 0
    /\ UNCHANGED <<iopub_pub, exec_req, kernel_vars, r_writes>>
    /\ UNCHANGED <<connect_vars, front_vars, shell_vars, parse_vars, help_vars, log>>

\* report_incomplete_request with the code alone as the exception's value
report_incomplete_request_CodeOnly ==
    /\ Running("execution")
    /\ r_pc = "eval"
    /\ Incomplete(requests[r_req].code)
    /\ SendResponse(ExecuteReplyException(execution_count, "IncompleteInput",
            <<requests[r_req].code>>))
    /\ r_pc' = "prompt"
    /\ r_req' = 0
    /\ UNCHANGED <<iopub_chan, iopub_pub, exec_req, kernel_vars, r_writes>>
    /\ UNCHANGED <<connect_vars, front_vars, shell_vars, parse_vars, help_vars, log>>

\* RKernel::report_incomplete_request, for the request the executor was
\* given: the executor asks for a continuation line
report_incomplete_request ==
    /\ Running("execution")
    /\ r_pc = "eval"
    /\ Incomplete(requests[r_req].code)
    /\ SendResponse(ExecuteReplyException(execution_count, "IncompleteInput",
            <<"Code fragment is not complete: ", requests[r_req].code>>))
    /\ r_pc' = "prompt"
    /\ r_req' = 0
    /\ UNCHANGED <<iopub_chan, iopub_pub, exec_req, kernel_vars, r_writes>>
    /\ UNCHANGED <<connect_vars, front_vars, shell_vars, parse_vars, help_vars, log>>

\* ------------------------------------------------------------------------
\* Specifications
\* ------------------------------------------------------------------------

Init == PipeInit /\ ParseOff /\ HelpOff

\* a thread panics: the hook that main() has set runs on that thread, and
\* first logs the panic
panic(w) ==
    /\ Running(w)
    /\ log' = log \cup {PanicRecord(w)}
    /\ UNCHANGED <<connect_vars, front_vars, shell_vars, chan_vars, kernel_vars, r_vars, parse_vars, help_vars>>

\* a hook that returns to the default handling: the thread unwinds and ends
panic_hook_Unwind ==
    /\ HostAlive
    /\ \E w \in threads :
          /\ InHook(w)
          /\ threads' = threads \ {w}
    /\ UNCHANGED <<connect_pc, handles>>
    /\ UNCHANGED <<front_vars, shell_vars, chan_vars, kernel_vars, r_vars, parse_vars, help_vars, log>>

\* the end of the hook: old_hook(panic_info); std::process::abort()
panic_hook ==
    /\ HostAlive
    /\ \E w \in threads \cup {"main"} : InHook(w)
    /\ connect_pc' = "aborted"
    /\ threads' = {}
    /\ UNCHANGED handles
    /\ UNCHANGED <<front_vars, shell_vars, chan_vars, kernel_vars, r_vars, parse_vars, help_vars, log>>

Next ==
    \/ parse_file
    \/ start_kernel
    \/ panic_hook
    \/ connect_shell
    \/ connect_iopub
    \/ connect_heartbeat
    \/ connect_execution
    \/ FrontendSend
    \/ shell_recv
    \/ shell_busy
    \/ shell_dispatch
    \/ shell_await
    \/ shell_reply_send
    \/ shell_idle
    \/ iopub_listen
    \/ fulfill_request
    \/ write_console
    \/ complete_intialization
    \/ r_read_console
    \/ finish_request
    \/ finish_request_reply
    \/ report_incomplete_request

\* the kernel host: connect(), then the workers
Spec == Init /\ [][Next]_vars

\* the threads of the host: main, which runs parse_file and connect(), and
\* the four that connect() spawns
MainThread ==
    \/ parse_file \/ connect_shell \/ connect_iopub \/ connect_heartbeat
    \/ connect_execution \/ start_kernel
ShellThread ==
    \/ shell_recv \/ shell_busy \/ shell_dispatch
    \/ shell_await \/ shell_reply_send \/ shell_idle
IOPubThread == iopub_listen
ExecutionThread ==
    \/ fulfill_request \/ complete_intialization \/ r_read_console
    \/ finish_request \/ finish_request_reply \/ report_incomplete_request

\* a thread that can take a step does so in the end
Fairness ==
    /\ WF_vars(MainThread)
    /\ WF_vars(ShellThread)
    /\ WF_vars(IOPubThread)
    /\ WF_vars(ExecutionThread)

\* the kernel host with its threads scheduled fairly
FairSpec == Init /\ [][Next]_vars /\ Fairness

ControlNext ==
    \/ Next
    \/ FrontendShutdown

\* the kernel host with a front end that also uses the control endpoint, the
\* threads of the host being scheduled fairly
ControlSpec == Init /\ [][ControlNext]_vars /\ Fairness

PanicNext ==
    \/ Next
    \/ \E w \in threads : panic(w)

\* the kernel host with workers that may panic
PanicSpec == Init /\ [][PanicNext]_vars

CloseNext ==
    \/ Next
    \/ iopub_exit
    \/ shell_channel_closed

\* the kernel host with an I/O publish worker that may end
CloseSpec == Init /\ [][CloseNext]_vars

\* the number of messages RKernel has sent so far, the console's aside
Sends ==
    LET RECURSIVE Replies(_)
        Replies(n) == IF n = 0 THEN 0 ELSE Len(reply_chan[n]) + Replies(n - 1)
    IN  Len(iopub_pub) + Len(iopub_chan) + Replies(MaxRequests)

\* the number of shutdown requests made so far
Shutdowns ==
    Cardinality({i \in 1..Len(exec_req) : exec_req[i] = RRequestShutdown})
        + Cardinality({i \in 1..Len(console) : console[i] = ConsoleNone})

\* a producer sends RRequest::ExecuteCode(req, sender) on the execution
\* request channel
SendExecuteCode ==
    /\ Running("execution")
    /\ Len(requests) < MaxRequests
    /\ \E req \in ExecuteRequests :
          /\ requests' = Append(requests, req)
          /\ exec_req' = Append(exec_req, Len(requests) + 1)
    /\ UNCHANGED <<shell_in, shell_out, control_in, control_out>>
    /\ UNCHANGED <<iopub_chan, iopub_pub, reply_chan>>
    /\ UNCHANGED <<connect_vars, shell_vars, kernel_vars, r_vars, parse_vars, help_vars, log>>

\* a producer sends RRequest::Shutdown on the execution request channel
SendShutdown ==
    /\ Running("execution")
    /\ Shutdowns < MaxShutdowns
    /\ exec_req' = Append(exec_req, RRequestShutdown)
    /\ UNCHANGED <<iopub_chan, iopub_pub, reply_chan>>
    /\ UNCHANGED <<connect_vars, front_vars, shell_vars, kernel_vars, r_vars, parse_vars, help_vars, log>>

\* the caller of RKernel's methods is at any point of its work, with any of
\* the requests in hand: complete_intialization, write_console,
\* report_incomplete_request and finish_request are public and can be called
\* in any order
AnyCaller ==
    /\ Running("execution")
    /\ Sends < MaxSends
    /\ Len(banner) < MaxOutput /\ Len(output) < MaxOutput
    /\ r_pc \in {"startup", "prompt", "eval"}
    /\ \/ r_pc' = "startup" /\ r_req' = 0
       \/ r_pc' = "eval" /\ r_req' \in 1..Len(requests)
    /\ r_writes' = 0
    /\ UNCHANGED <<connect_vars, front_vars, shell_vars, chan_vars, kernel_vars, parse_vars, help_vars, log>>

KernelNext ==
    \/ parse_file
    \/ connect_shell
    \/ connect_iopub
    \/ connect_heartbeat
    \/ connect_execution
    \/ SendExecuteCode
    \/ SendShutdown
    \/ AnyCaller
    \/ fulfill_request
    \/ write_console
    \/ complete_intialization
    \/ finish_request
    \/ finish_request_reply
    \/ report_incomplete_request
    \/ iopub_listen

\* RKernel with its methods called in any order
KernelSpec == Init /\ [][KernelNext]_vars

\* one inbound message, before the kernel has connected
ParseStart ==
    /\ sent \in Messages
    /\ bufs = Frames(sent)
    /\ hmac_key \in {None, SessionKey}
    /\ parse_pc = "ready"
    /\ msg_bufs = <<>>
    /\ result = Err("")
    /\ connect_pc = "file"
    /\ threads = {}
    /\ handles = [w \in Workers |-> {}]
    /\ requests = <<>>
    /\ shell_in = <<>>
    /\ shell_out = <<>>
    /\ control_in = <<>>
    /\ control_out = <<>>
    /\ shell_pc = "recv"
    /\ shell_req = 0
    /\ shell_reply = [parent |-> 0, msg_type |-> "", status |-> "", execution_count |-> 0]
    /\ dispatched = <<>>
    /\ iopub_chan = <<>>
    /\ iopub_pub = <<>>
    /\ exec_req = <<>>
    /\ reply_chan = [i \in 1..MaxRequests |-> <<>>]
    /\ execution_count = 0
    /\ output = <<>>
    /\ response_sender = 0
    /\ banner = <<>>
    /\ initializing = TRUE
    /\ console = <<>>
    /\ initializer = <<>>
    /\ started = <<>>
    /\ r_pc = "startup"
    /\ r_req = 0
    /\ r_writes = 0
    /\ log = {}
    /\ HelpOff

ParseNext == FromBuffers

\* the wire codec on one inbound message
ParseSpec == ParseStart /\ [][ParseNext]_vars

\* ------------------------------------------------------------------------
\* ps_browse_url and the help channels
\* ------------------------------------------------------------------------

\* the URLs R asks to browse, each as its scheme and the rest: a page of the
\* help server, a web page, a local file
HelpPage == <<"http://", "127.0.0.1:8080/library/base/html/paste.html">>
WebPage == <<"https://", "www.r-project.org">>
LocalFile == <<"", "report.pdf">>
Urls == {HelpPage, WebPage, LocalFile}

\* url.starts_with("http://") || url.starts_with("https://")
starts_with_http(url) == url[1] \in {"http://", "https://"}

\* HelpRequest::ShowHelpUrlRequest(url); call is who sent it, which the
\* message does not carry
ShowHelpUrlRequest(url, call) == [url |-> url, call |-> call]

\* HelpReply::ShowHelpUrlReply(found); to is the call whose request it
\* answers, which the message does not carry
ShowHelpUrlReply(found, to) == [found |-> found, to |-> to]

\* what ps_browse_url_impl does with Ok(found) of handle_help_url: nothing
\* more when the help thread has shown the page, else a ShowUrl event for
\* the front end or the "open" command
Browse(url, found) ==
    IF found THEN "help"
    ELSE IF starts_with_http(url) THEN "show_url" ELSE "open"

\* a call that has returned: its URL, the reply it took from the help reply
\* channel if it took one, what was done with the URL, and the logical
\* value handed to R
Returned(url, reply, did) ==
    [url |-> url, reply |-> reply, did |-> did,
     value |-> IF did = "error" THEN 0 ELSE 1]

\* the help comm is opened: the help thread starts, and RMain is given the
\* request sender and the reply receiver
help_comm_open ==
    /\ help_comm = "none"
    /\ help_comm' = "open"
    /\ UNCHANGED <<help_tx, help_rx, browse_pc, browse_url, calls>>
    /\ UNCHANGED <<parse_vars, pipe_vars>>

\* the help thread ends: its receiver is dropped, with the requests in it
help_thread_exit ==
    /\ help_comm = "open"
    /\ help_comm' = "closed"
    /\ help_tx' = <<>>
    /\ UNCHANGED <<help_rx, browse_pc, browse_url, calls>>
    /\ UNCHANGED <<parse_vars, pipe_vars>>

\* the help thread takes a request and answers it: found when the URL is a
\* page of the help server
help_thread ==
    /\ help_comm = "open"
    /\ help_tx # <<>>
    /\ help_tx' = Tail(help_tx)
    /\ help_rx' = Append(help_rx,
                         ShowHelpUrlReply(Head(help_tx).url = HelpPage, Head(help_tx).call))
    /\ UNCHANGED <<help_comm, browse_pc, browse_url, calls>>
    /\ UNCHANGED <<parse_vars, pipe_vars>>

\* R calls ps_browse_url(url), up to the wait for the reply: without a help
\* channel, or when the send fails, handle_help_url logs and returns
\* Ok(false), and the call goes on to browse the URL itself
ps_browse_url ==
    /\ browse_pc = "idle"
    /\ Len(calls) < MaxCalls
    /\ \E url \in Urls :
          IF help_comm = "none"
          THEN /\ log' = log \cup {LogRecord("error", "No help channel available to handle help URL", url)}
               /\ calls' = Append(calls, Returned(url, <<>>, Browse(url, FALSE)))
               /\ UNCHANGED <<help_tx, browse_pc, browse_url>>
          ELSE IF help_comm = "closed"
          THEN /\ log' = log \cup {LogRecord("error", "Failed to send help message", <<>>)}
               /\ calls' = Append(calls, Returned(url, <<>>, Browse(url, FALSE)))
               /\ UNCHANGED <<help_tx, browse_pc, browse_url>>
          ELSE /\ help_tx' = Append(help_tx, ShowHelpUrlRequest(url, Len(calls) + 1))
               /\ browse_pc' = "wait"
               /\ browse_url' = url
               /\ UNCHANGED <<calls, log>>
    /\ UNCHANGED <<help_comm, help_rx>>
    /\ UNCHANGED <<parse_vars, connect_vars, front_vars, shell_vars, chan_vars, kernel_vars, r_vars>>

\* recv_timeout returns the reply at the head of the help reply channel, and
\* the call returns
recv_reply ==
    /\ browse_pc = "wait"
    /\ help_rx # <<>>
    /\ help_rx' = Tail(help_rx)
    /\ calls' = Append(calls, Returned(browse_url, <<Head(help_rx)>>,
                                       Browse(browse_url, Head(help_rx).found)))
    /\ browse_pc' = "idle"
    /\ browse_url' = <<>>
    /\ UNCHANGED <<help_comm, help_tx>>
    /\ UNCHANGED <<parse_vars, pipe_vars>>

\* recv_timeout returns Err, after 1 second with no reply or because the
\* help thread is gone: ps_browse_url logs the error and returns FALSE
recv_timeout ==
    /\ browse_pc = "wait"
    /\ help_rx = <<>>
    /\ log' = log \cup {LogRecord("error", "RecvTimeoutError", <<>>)}
    /\ calls' = Append(calls, Returned(browse_url, <<>>, "error"))
    /\ browse_pc' = "idle"
    /\ browse_url' = <<>>
    /\ UNCHANGED <<help_comm, help_tx, help_rx>>
    /\ UNCHANGED <<parse_vars, connect_vars, front_vars, shell_vars, chan_vars, kernel_vars, r_vars>>

HelpNext ==
    \/ help_comm_open
    \/ help_thread_exit
    \/ help_thread
    \/ ps_browse_url
    \/ recv_reply
    \/ recv_timeout

\* R browsing URLs while the help comm opens and closes
HelpSpec == Init /\ [][HelpNext]_vars

\* ------------------------------------------------------------------------
\* Claims about the kernel host (Spec)
\* ------------------------------------------------------------------------

Range(seq) == {seq[i] : i \in 1..Len(seq)}

\* the ids of the requests sent so far
Ids == 1..Len(requests)
ExecuteIds == {r \in Ids : requests[r].verb = "execute_request"}

\* everything enqueued on the I/O publish channel so far, in enqueue order
Enqueued == iopub_pub \o iopub_chan

\* where the messages of one kind for request r stand in seq
Positions(seq, kind, r) ==
    {i \in 1..Len(seq) : seq[i].kind = kind /\ seq[i].parent = r}

RECURSIVE KindsFor(_, _)
\* the kinds of the messages of seq that belong to request r, in order
KindsFor(seq, r) ==
    IF seq = <<>> THEN <<>>
    ELSE IF Head(seq).parent = r
         THEN <<Head(seq).kind>> \o KindsFor(Tail(seq), r)
         ELSE KindsFor(Tail(seq), r)

\* the reply to request r was sent on the shell socket
Replied(r) == \E i \in 1..Len(shell_out) : shell_out[i].parent = r
HandlerInvoked(r) == r \in Range(dispatched)
\* the shell worker is through with request r
ShellDone(r) == HandlerInvoked(r) /\ shell_req # r

\* C1: a request handed to the shell handler has its status=busy enqueued
\* before the handler is invoked and its status=idle enqueued after the reply
\* was produced, also when the handler or the executor answered with an error.
C1_BusyIdleBracket ==
    \A r \in Ids :
        /\ HandlerInvoked(r) => Positions(Enqueued, "busy", r) # {}
        /\ Positions(Enqueued, "idle", r) # {} => Replied(r)
        /\ ShellDone(r) => Positions(Enqueued, "idle", r) # {}
        /\ \A i \in Positions(Enqueued, "busy", r) :
              \A j \in Positions(Enqueued, "idle", r) : i < j

\* C1's case: a request was answered with an error and its idle is enqueued
C1_Witness ==
    \E r \in Ids :
        /\ \E i \in 1..Len(shell_out) :
              shell_out[i].parent = r /\ shell_out[i].status = "error"
        /\ Positions(Enqueued, "busy", r) # {}
        /\ Positions(Enqueued, "idle", r) # {}

\* C2: the published stream holds at most one status=busy and one
\* status=idle for an execute request, the busy first, and exactly one of
\* each once the request is done and the channel is drained.
C2_ExactlyOneBusyIdle ==
    \A r \in ExecuteIds :
        LET busy == Positions(iopub_pub, "busy", r)
            idle == Positions(iopub_pub, "idle", r)
        IN  /\ Cardinality(busy) <= 1
            /\ Cardinality(idle) <= 1
            /\ \A j \in idle : \E i \in busy : i < j
            /\ (ShellDone(r) /\ iopub_chan = <<>>)
                  => Cardinality(busy) = 1 /\ Cardinality(idle) = 1

\* C2's case: an execute request is done and both its statuses are published
C2_Witness ==
    \E r \in ExecuteIds :
        /\ ShellDone(r)
        /\ iopub_chan = <<>>
        /\ Positions(iopub_pub, "busy", r) # {}
        /\ Positions(iopub_pub, "idle", r) # {}

Rank(kind) ==
    CASE kind = "busy" -> 0
      [] kind = "execute_input" -> 1
      [] kind = "stream" -> 2
      [] kind = "display_data" -> 2
      [] kind = "execute_result" -> 3
      [] kind = "idle" -> 4

\* busy, then execute_input (if any), then stream/display_data, then
\* execute_result (if any), then idle: each of the four at most once
InOrder(kinds) ==
    /\ kinds # <<>> => kinds[1] = "busy"
    /\ \A i, j \in 1..Len(kinds) :
          i < j => /\ Rank(kinds[i]) <= Rank(kinds[j])
                   /\ Rank(kinds[i]) = Rank(kinds[j]) => Rank(kinds[i]) = 2

\* C3: for an execute request the messages on I/O come in the order busy,
\* execute_input, stream/display_data, execute_result, idle, as enqueued and
\* as published; execute_result is there on success only, and it is enqueued
\* before the reply is handed to the shell worker.
C3_IOPubOrder ==
    \A r \in ExecuteIds :
        /\ InOrder(KindsFor(Enqueued, r))
        /\ InOrder(KindsFor(iopub_pub, r))
        /\ Positions(Enqueued, "execute_result", r) # {}
              => ~Incomplete(requests[r].code)
        /\ \A i \in 1..Len(reply_chan[r]) :
              reply_chan[r][i].status = "ok"
                  => Positions(Enqueued, "execute_result", r) # {}

\* C3's case: all four messages of a request were published
C3_Witness ==
    \E r \in ExecuteIds :
        KindsFor(iopub_pub, r) = <<"busy", "execute_input", "execute_result", "idle">>

\* C4: the execution counter equals the number of handled execute requests
\* that had store_history=true.
C4_CounterCountsStoreHistory ==
    execution_count =
        Cardinality({i \in 1..Len(started) : requests[started[i]].store_history})

\* C4's case: a silent, incomplete request with store_history was counted,
\* and one without store_history was not
C4_Witness ==
    /\ execution_count = 1
    /\ \E i, j \in 1..Len(started) :
          /\ requests[started[i]].store_history
          /\ requests[started[i]].silent
          /\ Incomplete(requests[started[i]].code)
          /\ ~requests[started[j]].store_history
          /\ reply_chan[started[i]] # <<>>
          /\ reply_chan[started[j]] # <<>>

\* the execute requests that were started and are not over: the executor
\* still has the code, or no reply was sent for it
InFlight ==
    {r \in Range(started) :
        r = r_req \/ r \in Range(console) \/ reply_chan[r] = <<>>}

\* C9: at most one execute request is between the start of its execution and
\* the sending of its reply.
C9_OneAtATime ==
    /\ Cardinality(InFlight) <= 1
    /\ Cardinality({r \in Range(started) : ~Replied(r)}) <= 1

\* C9's case: a second request is being evaluated, the first one was replied to
C9_Witness ==
    /\ Len(started) = 2
    /\ r_pc = "eval"
    /\ r_req = started[2]
    /\ Replied(started[1])

\* C10: after connect() every socket is held by exactly one worker.
C10_SocketsNotShared ==
    connect_pc = "ok" =>
        \A sock \in Sockets :
            Cardinality({w \in threads : sock \in handles[w]}) = 1

\* the value of the execution counter once handle_execute_request has taken
\* request r: the requests with store_history started up to and including r
CountAt(r) ==
    Cardinality({i \in 1..Len(started) :
                    /\ requests[started[i]].store_history
                    /\ \E j \in i..Len(started) : started[j] = r})

\* C14: when the executor reports the code c of an execute request as
\* incomplete, the one response sent on the request's reply sender is an
\* exception with status error, ename "IncompleteInput", evalue "Code
\* fragment is not complete: " followed by c, an empty traceback and the
\* execution counter as it stands.
C14_IncompleteReply ==
    \A r \in Range(started) :
        Incomplete(requests[r].code) =>
            /\ Len(reply_chan[r]) <= 1
            /\ \A i \in 1..Len(reply_chan[r]) :
                  LET resp == reply_chan[r][i]
                  IN  /\ resp.kind = "ReplyException"
                      /\ resp.status = "error"
                      /\ resp.ename = "IncompleteInput"
                      /\ resp.evalue = <<"Code fragment is not complete: ", requests[r].code>>
                      /\ resp.traceback = <<>>
                      /\ resp.execution_count = CountAt(r)

\* C14's case: the second request, with store_history, was reported
\* incomplete after a first one was counted
C14_Witness ==
    /\ Len(started) = 2
    /\ Incomplete(requests[started[2]].code)
    /\ requests[started[1]].store_history
    /\ requests[started[2]].store_history
    /\ reply_chan[started[2]] # <<>>
    /\ reply_chan[started[2]][1].execution_count = 2

IsPrefix(s, t) == Len(s) <= Len(t) /\ s = SubSeq(t, 1, Len(s))

\* the execute requests whose code the executor reports as incomplete
IncompleteIds == {r \in ExecuteIds : Incomplete(requests[r].code)}

\* C15 as claimed: for an execute request whose code is reported incomplete
\* the I/O publish stream is status=busy followed by status=idle and nothing
\* else: no execute_input, no stream, no execute_result.
C15_IncompleteStreamBusyIdle ==
    \A r \in IncompleteIds :
        /\ IsPrefix(KindsFor(Enqueued, r), <<"busy", "idle">>)
        /\ IsPrefix(KindsFor(iopub_pub, r), <<"busy", "idle">>)

\* what is published for an incomplete request: the execute_input of
\* handle_execute_request stands between the two statuses unless the request
\* is silent
IncompleteStream(r) ==
    IF requests[r].silent
    THEN <<"busy", "idle">>
    ELSE <<"busy", "execute_input", "idle">>

\* C15, amended: for an execute request whose code is reported incomplete
\* the I/O publish stream is status=busy, then execute_input if and only if
\* silent is false, then status=idle; no stream and no execute_result is
\* published for it.
C15_IncompleteStream ==
    \A r \in IncompleteIds :
        /\ IsPrefix(KindsFor(Enqueued, r), IncompleteStream(r))
        /\ IsPrefix(KindsFor(iopub_pub, r), IncompleteStream(r))
        /\ ShellDone(r) => KindsFor(Enqueued, r) = IncompleteStream(r)
        /\ reply_chan[r] # <<>> =>
              IsPrefix(SubSeq(IncompleteStream(r), 1, Len(IncompleteStream(r)) - 1),
                       KindsFor(Enqueued, r))

\* C15's case: an incomplete request that is not silent is done and its
\* three messages are published; so is a silent one, with two
C15_Witness ==
    \E r, q \in IncompleteIds :
        /\ ~requests[r].silent
        /\ requests[q].silent
        /\ ShellDone(r) /\ ShellDone(q)
        /\ KindsFor(iopub_pub, r) = <<"busy", "execute_input", "idle">>
        /\ KindsFor(iopub_pub, q) = <<"busy", "idle">>

\* the code of request r was handed to the executor
HandedOver(r) == r \in Range(console) \/ r = r_req \/ reply_chan[r] # <<>>

\* C16: an execute_input is enqueued on the I/O publish channel for an
\* execute request exactly when the coordinator has taken the request and
\* silent is false, and only once; it carries the request's code and the
\* counter as it is after the store_history increment, and it is enqueued by
\* the time the code is handed to the executor.
C16_ExecuteInputIffNotSilent ==
    \A r \in ExecuteIds :
        LET inputs == Positions(Enqueued, "execute_input", r)
        IN  /\ inputs # {} <=> (r \in Range(started) /\ ~requests[r].silent)
            /\ Cardinality(inputs) <= 1
            /\ \A i \in inputs :
                  /\ Enqueued[i].code = requests[r].code
                  /\ Enqueued[i].execution_count = CountAt(r)
            /\ (HandedOver(r) /\ ~requests[r].silent) => inputs # {}

\* C16's case: of two requests with store_history the silent one was
\* evaluated without an execute_input, the other one has its input with
\* counter 2
C16_Witness ==
    /\ Len(started) = 2
    /\ requests[started[1]].silent /\ requests[started[1]].store_history
    /\ ~requests[started[2]].silent /\ requests[started[2]].store_history
    /\ reply_chan[started[1]] # <<>>
    /\ Positions(Enqueued, "execute_input", started[1]) = {}
    /\ \E i \in Positions(Enqueued, "execute_input", started[2]) :
          Enqueued[i].execution_count = 2

\* the strings that went out on the shell socket and the I/O publish socket
SentStrings ==
    UNION {{shell_out[i].msg_type, shell_out[i].status} : i \in 1..Len(shell_out)}
    \cup UNION {{iopub_pub[i].kind, iopub_pub[i].code} \cup Range(iopub_pub[i].data) :
                    i \in 1..Len(iopub_pub)}

\* the strings that were formatted into log records
LoggedStrings == UNION {Range(rec.values) : rec \in log}

\* C17: the signing key of the connection descriptor is in no log record, no
\* error message and no outbound frame.
C17_KeyNeverLoggedOrSent ==
    ConnectionFile.key \notin LoggedStrings \cup SentStrings

\* the workers of spec.md section 5: one per long-lived endpoint, and one for
\* the language executor
FiveWorkers == {"shell", "iopub", "heartbeat", "control", "execution"}

\* C11: a successful connect() leaves five workers running, one each for the
\* shell, I/O publish, heartbeat and control endpoints and one for the
\* language executor.
C11_FiveWorkers ==
    connect_pc = "ok" =>
        /\ Cardinality(threads) = 5
        /\ threads = FiveWorkers

\* the requests whose signature the codec does not accept
Rejected == {r \in Ids : ~Received(r).ok}

\* the request was taken from the shell socket
Taken(r) == r \in Ids /\ r \notin Range(shell_in)

\* C12: for a shell request that fails signature verification no reply is
\* sent on the shell socket and neither status=busy nor status=idle, nor
\* anything else, is enqueued on the I/O publish channel; it reaches neither
\* the shell handler nor the execution coordinator.
C12_RejectedRequestIsSilent ==
    \A r \in Rejected :
        /\ ~Replied(r)
        /\ KindsFor(Enqueued, r) = <<>>
        /\ r \notin Range(dispatched)
        /\ r \notin Range(exec_req) \cup Range(started)
        /\ shell_req # r

\* C12's case: a request signed with zeros was received and logged as
\* BadSignature, and the request sent after it was answered
C12_Witness ==
    /\ Len(requests) = 2
    /\ requests[1].sig = "zeros"
    /\ Taken(1)
    /\ LogRecord("warn", "BadSignature", <<"signature">>) \in log
    /\ Replied(2)

\* C19: the I/O publish worker publishes the messages in the order in which
\* they were enqueued, none lost, duplicated or reordered, whichever producer
\* enqueued them: the sequence of all messages ever enqueued (the published
\* ones followed by the waiting ones) only grows at its end, and a step of
\* the worker publishes the oldest waiting message and no other.
C19_PublishedInEnqueueOrder ==
    [][/\ IsPrefix(Enqueued, Enqueued')
       /\ IsPrefix(iopub_pub, iopub_pub')
       /\ Len(iopub_pub') <= Len(iopub_pub) + 1
       /\ iopub_pub' # iopub_pub => Enqueued' = Enqueued]_vars

\* C19's case: two messages were waiting at once and the worker has published
\* messages of both producers, the shell worker and the coordinator
C19_Witness ==
    /\ Len(iopub_chan) = 2
    /\ \E i, j \in 1..Len(iopub_pub) :
          /\ iopub_pub[i].kind = "busy"
          /\ iopub_pub[j].kind = "execute_input"

\* a request is in progress: handle_execute_request has stored its sender and
\* no response was sent on it yet
InProgress == response_sender # 0 /\ reply_chan[response_sender] = <<>>

\* this step is a call of write_console
WriteStep == r_writes' = r_writes + 1

\* this step is a call of handle_execute_request
HandleStep == started' # started

\* every execute_result that this step enqueues carries the accumulator as
\* its text/plain value
ResultCarriesOutput ==
    \A i \in (Len(Enqueued) + 1)..Len(Enqueued') :
        Enqueued'[i].kind = "execute_result" => Enqueued'[i].data = output

\* C26 as it was claimed: the text/plain value of a request's execute_result
\* is the concatenation of all console output written between the request's
\* handle_execute_request and its finish_request: handle_execute_request
\* empties the accumulator, every console write made while the request is in
\* progress is appended to it, nothing else changes it, and finish_request
\* publishes it.
C26_ResultIsConsoleOutput ==
    [][/\ HandleStep => output' = <<>>
       /\ (WriteStep /\ InProgress) => \E c \in ConsoleTexts : output' = output \o c
       /\ (~HandleStep /\ ~WriteStep) => output' = output
       /\ ResultCarriesOutput]_vars

\* C26: the text/plain value of a request's execute_result is the
\* concatenation of the console output written, once the kernel's
\* initialization is complete, between the request's handle_execute_request
\* and its finish_request; what is written while the kernel is initializing
\* goes to the banner.  The accumulator is emptied at the start of every
\* request, so that output of an earlier request never is in a later
\* request's result.
C26_ResultIsAccumulatedOutput ==
    [][/\ HandleStep => output' = <<>>
       /\ (WriteStep /\ InProgress /\ ~initializing)
             => \E c \in ConsoleTexts : output' = output \o c
       /\ (WriteStep /\ initializing)
             => /\ output' = output
                /\ \E c \in ConsoleTexts : banner' = banner \o c
       /\ (~HandleStep /\ ~WriteStep) => output' = output
       /\ ResultCarriesOutput]_vars

\* C26's case: two requests had console output, and the result of each is
\* published with the output of that request alone
C26_Witness ==
    /\ Len(started) = 2
    /\ \A r \in Range(started) :
          \E i \in Positions(iopub_pub, "execute_result", r) :
              iopub_pub[i].data \in ConsoleTexts

\* C27: for a successful execute request the execute_input (when there is
\* one), the execute_result and the reply carry the same execution count, the
\* counter after the request's store_history increment; the reply has
\* status ok and empty user_expressions.
C27_OneCountPerRequest ==
    \A r \in Range(started) :
        ~Incomplete(requests[r].code) =>
            /\ \A i \in Positions(Enqueued, "execute_input", r) \cup
                         Positions(Enqueued, "execute_result", r) :
                  Enqueued[i].execution_count = CountAt(r)
            /\ \A j \in 1..Len(reply_chan[r]) :
                  /\ reply_chan[r][j].kind = "Reply"
                  /\ reply_chan[r][j].status = "ok"
                  /\ reply_chan[r][j].execution_count = CountAt(r)
                  /\ reply_chan[r][j].user_expressions = <<>>

\* C27's case: a request with store_history=false, taken after one with
\* store_history=true, has its execute_input and execute_result published and
\* its reply sent
C27_Witness ==
    \E r \in Range(started) :
        /\ ~requests[r].store_history
        /\ CountAt(r) = 1
        /\ Positions(iopub_pub, "execute_input", r) # {}
        /\ Positions(iopub_pub, "execute_result", r) # {}
        /\ reply_chan[r] # <<>>

\* C30: when connect() returns an error because a socket could not be
\* created, no worker thread is left running: workers are started only when
\* every endpoint has been opened.
C30_NoWorkerAfterFailedConnect ==
    connect_pc = "err" => threads = {}

\* ------------------------------------------------------------------------
\* Claims about the kernel host under fair scheduling (FairSpec)
\* ------------------------------------------------------------------------

\* the execute requests whose signature the codec accepts
VerifiedIds == {r \in ExecuteIds : Received(r).ok}

\* the replies to request r on the shell socket
RepliesTo(r) == {i \in 1..Len(shell_out) : shell_out[i].parent = r}

\* request r has its one reply on the shell socket and its status=idle is
\* published
Answered(r) ==
    /\ Cardinality(RepliesTo(r)) = 1
    /\ Positions(iopub_pub, "idle", r) # {}

\* after connect() a verified execute request is not answered yet
Pending == connect_pc = "ok" /\ \E r \in VerifiedIds : ~Answered(r)

\* C31: under fair scheduling of all workers, with an executor that returns,
\* every verified execute request is answered in the end by exactly one reply
\* on the shell socket and its status=idle is published in the end; and in
\* no state are the shell worker, the coordinator and the I/O publish worker
\* all blocked while a verified request is not answered.
C31_EveryRequestAnswered ==
    /\ \A r \in 1..MaxRequests :
          (connect_pc = "ok" /\ r \in VerifiedIds) ~> Answered(r)
    /\ [](\A r \in Ids : Cardinality(RepliesTo(r)) <= 1)
    /\ [](Pending => ENABLED (ShellThread \/ IOPubThread \/ ExecutionThread))

\* C31's case: two verified execute requests, one of them with incomplete
\* code, were answered while the I/O publish channel had been full
C31_Witness ==
    /\ Cardinality(VerifiedIds) = 2
    /\ \A r \in VerifiedIds : Answered(r)
    /\ \E r \in VerifiedIds : Incomplete(requests[r].code)
    /\ Len(iopub_pub) > IOPubCap

\* ------------------------------------------------------------------------
\* Claims about panics (PanicSpec)
\* ------------------------------------------------------------------------

\* C21: a panic inside any worker thread terminates the whole process: a
\* worker that has panicked is still in the panic hook, or no thread of the
\* process is left; no worker has ended by its panic while others run.
C21_PanicTerminatesProcess ==
    \A w \in {"shell", "iopub", "heartbeat", "execution"} :
        InHook(w) => \/ w \in threads /\ HostAlive
                     \/ threads = {} /\ ~HostAlive

\* C21's case: a worker panicked while a request was in flight, and the
\* process was aborted
C21_Witness ==
    /\ connect_pc = "aborted"
    /\ InHook("execution")
    /\ InFlight # {}

\* ------------------------------------------------------------------------
\* Claims about the control endpoint (ControlSpec) and about a channel that
\* is closed (CloseSpec)
\* ------------------------------------------------------------------------

\* the shutdown marker went through the execution request channel and the
\* coordinator has passed it on: the coordinator has drained
MarkerDrained ==
    /\ RRequestShutdown \notin Range(exec_req)
    /\ ConsoleNone \in Range(console) \/ r_pc = "quit"

\* C18: a shutdown request on the control endpoint is carried out in this
\* order: the control worker enqueues a shutdown marker on the execution
\* request channel, waits until the coordinator has drained, sends the
\* shutdown reply, and then has the host tear down the other workers; the
\* reply is never sent while an execute request is being executed.  So the
\* reply is sent only when the marker has been drained and no execute
\* request is in flight, and a shutdown request that has arrived leads to
\* the marker being drained and the reply being sent.
C18_ShutdownSequence ==
    /\ [](control_out # <<>> => (MarkerDrained /\ InFlight = {}))
    /\ (control_in # <<>>) ~> (MarkerDrained /\ control_out # <<>>)

\* a send of the coordinator on the I/O publish channel has failed
IOPubSendFailed == {ExecuteInputWarning, ExecuteResultWarning} \cap log # {}

\* C20: a worker that finds the channel to a sibling worker closed treats
\* this as fatal and propagates the shutdown: once a send of the coordinator
\* on the I/O publish channel has failed the host is shut down, so that the
\* coordinator does not log the failure and go on to evaluate the request and
\* to reply to it.
C20_ClosedChannelIsFatal ==
    IOPubSendFailed => ~HostAlive

\* ------------------------------------------------------------------------
\* Claims about RKernel, its methods called in any order (KernelSpec)
\* ------------------------------------------------------------------------

\* C25: every execute request that handle_execute_request has taken receives
\* exactly one ExecuteResponse, on the sender it came with: no sender has
\* been sent two responses, and a request whose sender RKernel no longer
\* holds has received its response.
C25_OneResponsePerRequest ==
    \A r \in Range(started) :
        /\ Len(reply_chan[r]) <= 1
        /\ r # response_sender => Len(reply_chan[r]) = 1

\* C28: over any sequence of complete_intialization and write_console calls
\* the kernel info is sent on the initializer channel exactly once, by the
\* first complete_intialization, and carries the banner made of the console
\* output written before it; later calls send nothing, the initializing flag
\* never becomes true again, and console output written afterwards goes to
\* the output accumulator and leaves the banner as it is.
C28_KernelInfoSentOnce ==
    [][/\ initializing
             => \/ initializing' /\ initializer' = initializer
                \/ /\ ~initializing'
                   /\ initializer' = <<[version |-> "R", banner |-> banner]>>
                   /\ banner' = banner
       /\ ~initializing
             => /\ ~initializing'
                /\ initializer' = initializer
                /\ banner' = banner
       /\ (WriteStep /\ initializing)
             => \E c \in ConsoleTexts : banner' = banner \o c /\ output' = output
       /\ (WriteStep /\ ~initializing)
             => \E c \in ConsoleTexts : output' = output \o c
       /\ (~WriteStep) => banner' = banner]_vars

\* C28's case: complete_intialization was called a second time, after
\* console output before the first call and after it
C28_Witness ==
    /\ LogRecord("warn", "Initialization already complete!", <<>>) \in log
    /\ Len(initializer) = 1
    /\ initializer[1].banner # <<>>
    /\ output # <<>>

\* this step is fulfill_request taking a Shutdown request
ShutdownStep ==
    /\ exec_req # <<>>
    /\ Head(exec_req) = RRequestShutdown
    /\ exec_req' = Tail(exec_req)

\* C29: fulfilling a Shutdown request sends exactly one end-of-input marker
\* (None) to the console and changes nothing else: the execution counter,
\* the output accumulator and the stored reply sender stay as they are,
\* nothing is enqueued on the I/O publish channel and nothing is sent on a
\* reply sender.
C29_ShutdownOnlySendsNone ==
    [][ShutdownStep =>
          /\ console' = Append(console, ConsoleNone)
          /\ UNCHANGED <<execution_count, output, response_sender>>
          /\ UNCHANGED <<banner, initializing, initializer, started>>
          /\ UNCHANGED <<iopub_chan, iopub_pub, reply_chan>>]_vars

\* C29's case: a Shutdown request was fulfilled while a request with console
\* output was in progress
C29_Witness ==
    /\ \E i \in 1..Len(console) : console[i] = ConsoleNone
    /\ response_sender # 0
    /\ reply_chan[response_sender] = <<>>
    /\ output # <<>>

\* ------------------------------------------------------------------------
\* Claims about the wire codec (ParseSpec)
\* ------------------------------------------------------------------------

ParseDone == parse_pc = "done"

\* the index of the first frame equal to the delimiter, 0 when there is none
FirstDelim ==
    IF \E i \in 1..Len(bufs) : bufs[i] = MSG_DELIM
    THEN CHOOSE i \in 1..Len(bufs) :
            /\ bufs[i] = MSG_DELIM
            /\ \A j \in 1..(i - 1) : bufs[j] # MSG_DELIM
    ELSE 0

\* the message is as the front end built it, delimiter included, and its
\* signature is the HMAC of its four signed frames under the session's key
SignedWithSessionKey ==
    /\ hmac_key = SessionKey
    /\ sent.delim
    /\ sent.sig = "session"

\* C5: parsing a well-formed frame sequence signed with the session key
\* succeeds and returns the message, whose verb is the verb that was sent.
C5_ParseAcceptsWellFormed ==
    (ParseDone /\ SignedWithSessionKey /\ sent.flip = 0)
        => (result.ok /\ result.verb = sent.verb)

\* C6: with a signing key, a correctly signed message one of whose four
\* signed frames was changed, the signature frame left alone, fails with
\* BadSignature.
C6_ChangedFrameBadSignature ==
    (ParseDone /\ SignedWithSessionKey /\ sent.flip \in 1..4)
        => result = Err("BadSignature")

\* C7: without any frame equal to <IDS|MSG> parsing fails with
\* MissingDelimiter, with or without a signing key; with one, the frames
\* after the first such frame are the message body.
C7_MissingDelimiter ==
    ParseDone =>
        /\ FirstDelim = 0 => result = Err("MissingDelimiter")
        /\ FirstDelim # 0 => msg_bufs = SubSeq(bufs, FirstDelim + 1, Len(bufs))

\* C7's case: a keyed session has parsed frames that hold no delimiter
C7_Witness ==
    /\ ParseDone
    /\ FirstDelim = 0
    /\ hmac_key = SessionKey
    /\ Len(bufs) > 4
    /\ result = Err("MissingDelimiter")

\* C8: the parser retains the identity prefix of an inbound message (every
\* frame before the delimiter is among the frames it keeps), so that a reply
\* can carry the request's identity frames.
C8_IdentityRetained ==
    (ParseDone /\ sent.delim /\ FirstDelim = Len(sent.ids) + 1)
        => \A i \in 1..Len(sent.ids) : i > Len(bufs) - Len(msg_bufs)

\* the inbound message is one of the bad ones: it has no delimiter, or its
\* signature frame is not the HMAC of the frames it came with
BadInbound ==
    /\ hmac_key = SessionKey
    /\ FirstDelim = 0 \/ sent.sig # "session" \/ sent.flip # 0

\* the error values of MessageError, which the worker logs before it goes on
\* receiving
MessageErrors == {"MissingDelimiter", "InvalidHmac", "BadSignature"}

\* C13: an inbound message without delimiter or with a malformed or wrong
\* signature is a recoverable error: parsing it returns an error value to the
\* worker, which is then still in its receive loop; it never ends the
\* worker's thread.
C13_InboundErrorIsReturned ==
    (ParseDone /\ BadInbound) => (~result.ok /\ result.err \in MessageErrors)

\* C22: when the session has no signing key, verification is skipped: any
\* signature frame, an empty one or one that is not hexadecimal included, is
\* accepted by the verification, and parsing never yields InvalidHmac or
\* BadSignature.
C22_NoKeyNoVerification ==
    (ParseDone /\ hmac_key = None /\ FirstDelim # 0)
        => /\ validate_hmac(msg_bufs, hmac_key) = "Ok"
           /\ result.err \notin {"InvalidHmac", "BadSignature", "Panic"}

\* C22's case: a session without key has parsed a message whose signature
\* frame is not hexadecimal
C22_Witness ==
    /\ ParseDone
    /\ hmac_key = None
    /\ sent.delim
    /\ sent.sig = "nothex"
    /\ FirstDelim = Len(sent.ids) + 1

\* the frame directly after the first delimiter is there and is not valid
\* hexadecimal
SignatureNotHex ==
    /\ FirstDelim # 0
    /\ Len(bufs) > FirstDelim
    /\ ~HexDecode(bufs[FirstDelim + 1]).ok

\* C23: with a signing key, a signature frame (the frame directly after the
\* delimiter) that is not valid hexadecimal makes parsing fail with
\* InvalidHmac, never with BadSignature or anything else.
C23_NotHexInvalidHmac ==
    (ParseDone /\ hmac_key = SessionKey /\ SignatureNotHex)
        => result = Err("InvalidHmac")

\* the signature of the frames fs passes the verification under key
Verified(fs, key) ==
    position(fs) # 0 /\ validate_hmac(BodyOf(fs), key) = "Ok"

\* C24: whether the signature of a message is accepted depends only on the
\* signature frame and the four frames after it: the same message with
\* other binary buffer frames after the content frame, or with none, is
\* accepted exactly when this one is.
C24_BuffersNotSigned ==
    (ParseDone /\ sent.delim /\ hmac_key = SessionKey) =>
        \A b \in SeqsUpTo(BufFrames, MaxBufs) :
            Verified(Frames([sent EXCEPT !.buffers = b]), hmac_key)
                = Verified(bufs, hmac_key)

\* ------------------------------------------------------------------------
\* Claims about ps_browse_url (HelpSpec)
\* ------------------------------------------------------------------------

\* C32: the reply that handle_help_url takes from the help reply channel is
\* the reply to the request sent in that same call; a reply sent after an
\* earlier call's wait has timed out is never taken as the answer for the
\* URL of a later call
C32_ReplyAnswersOwnRequest ==
    \A i \in 1..Len(calls) :
        \A j \in 1..Len(calls[i].reply) : calls[i].reply[j].to = i

====
